---- MODULE Spec2Model ----
(***************************************************************************)
(* magiskboot compress.c: the five transcoders (gzip, lzma, lz4, bzip2,    *)
(* lz4_legacy), the dispatchers decomp/comp and the command line helpers   *)
(* decomp_file/comp_file.                                                  *)
(*                                                                         *)
(* Byte strings are symbolic: a byte string is a sequence of segments,     *)
(* each segment naming which bytes it holds (a slice of the original       *)
(* plaintext, a slice of a codec's stream for that plaintext, a 4-byte     *)
(* field with its value, one legacy LZ4 block, or junk).  This keeps the   *)
(* source's window sizes (0x40000, 0x800000, 1 << 22) at their real value. *)
(* size_t and unsigned values stay far below 2^31 on the inputs modelled,  *)
(* so conversions between them are the identity on that range; the one     *)
(* unsigned subtraction that can wrap goes through SubSizeT.               *)
(***************************************************************************)
EXTENDS Integers, Sequences, FiniteSets, TLC

\* ------------------------------------------------------------------------
\* Program constants
\* ------------------------------------------------------------------------
CHUNK == 262144

LZ4_HEADER_SIZE == 19

LZ4_LEGACY_BLOCKSIZE == 8388608

\* blockSize = 1 << 22 in lz4()
blockSize == 4194304

\* stdio's BUFSIZ of the C library the tool is built against (bionic)
BUFSIZ == 1024

\* lz4.h: LZ4_COMPRESSBOUND(isize) = isize + isize/255 + 16
LZ4_COMPRESSBOUND(isize) == isize + (isize \div 255) + 16

\* stand-in for 2^w of size_t: every modelled length is far below it
SIZE_WRAP == 1073741824

SubSizeT(a, b) == IF a >= b THEN a - b ELSE SIZE_WRAP - (b - a)

\* ------------------------------------------------------------------------
\* Bounds of the model
\* ------------------------------------------------------------------------
\* inputs are at most MaxWindows windows (plus one byte) of the transcoder
MaxWindows == 2

\* the command line helpers are run on files of at most MaxFileLen bytes;
\* longer buffers go to comp / decomp directly
MaxFileLen == 64

Min(a, b) == IF a <= b THEN a ELSE b

Max(a, b) == IF a >= b THEN a ELSE b

\* ------------------------------------------------------------------------
\* Format tags (file_t) and method names
\* ------------------------------------------------------------------------
Supported == {"GZIP", "XZ", "LZMA", "BZIP2", "LZ4", "LZ4_LEGACY"}

Tags == Supported \cup {"UNKNOWN", "AOSP"}

Methods == {"gzip", "xz", "lzma", "lz4", "lz4_legacy", "bzip2"}

NULL == <<>>

\* ------------------------------------------------------------------------
\* Symbolic byte strings
\* ------------------------------------------------------------------------
Seg(t, f, n, a, b, v) == [t |-> t, f |-> f, n |-> n, a |-> a, b |-> b, v |-> v]

\* bytes a..b-1 of the original plaintext
Raw(a, b) == Seg("raw", "", 0, a, b, 0)

\* bytes a..b-1 of the format-f stream that encodes plaintext bytes 0..n-1
Enc(f, n, a, b) == Seg("enc", f, n, a, b, 0)

\* the 4 bytes 02 21 4C 18
Magic == Seg("magic", "", 0, 0, 4, 0)

\* a 4-byte little-endian field holding v
U32(v) == Seg("u32", "", 0, 0, 4, v)

\* one LZ4 block of c bytes that decompresses to plaintext bytes a..b-1
Blk(a, b, c) == Seg("blk", "", 0, a, b, c)

\* k bytes of no meaning
Junk(k) == Seg("junk", "", 0, 0, k, 0)

NoSeg == Seg("none", "", 0, 0, 0, 0)

SegLen(s) == IF s.t = "blk" THEN s.v ELSE s.b - s.a

RECURSIVE Size(_)
Size(segs) == IF segs = <<>> THEN 0 ELSE SegLen(Head(segs)) + Size(Tail(segs))

\* append with merging of adjacent slices; an empty write leaves no byte
Put(segs, s) ==
    IF SegLen(s) = 0 THEN segs
    ELSE IF segs = <<>> THEN <<s>>
    ELSE LET l == segs[Len(segs)] IN
         IF /\ l.t = s.t /\ l.t \in {"raw", "enc"}
            /\ l.f = s.f /\ l.n = s.n /\ l.b = s.a
         THEN [segs EXCEPT ![Len(segs)] = [l EXCEPT !.b = s.b]]
         ELSE IF l.t = "junk" /\ s.t = "junk"
         THEN [segs EXCEPT ![Len(segs)] = [l EXCEPT !.b = l.b + s.b]]
         ELSE Append(segs, s)

\* the first k bytes
RECURSIVE Take(_, _)
Take(segs, k) ==
    IF k <= 0 \/ segs = <<>> THEN <<>>
    ELSE LET h == Head(segs) IN
         IF SegLen(h) <= k THEN <<h>> \o Take(Tail(segs), k - SegLen(h))
         ELSE IF h.t \in {"raw", "enc"} THEN <<[h EXCEPT !.b = h.a + k]>>
         ELSE <<Junk(k)>>

\* the segment that starts exactly at byte offset off, NoSeg if none does
RECURSIVE SegAt(_, _)
SegAt(segs, off) ==
    IF segs = <<>> \/ off < 0 THEN NoSeg
    ELSE IF off = 0 THEN Head(segs)
    ELSE IF SegLen(Head(segs)) > off THEN NoSeg
    ELSE SegAt(Tail(segs), off - SegLen(Head(segs)))

\* a file or mapped buffer: its bytes, the offset of a damaged byte (-1: none)
\* and the tag of the comp() call that wrote exactly these bytes ("" if none)
File(segs, bad, prov) == [segs |-> segs, bad |-> bad, prov |-> prov]

NoFile == File(<<>>, -1, "")

\* ------------------------------------------------------------------------
\* Codec libraries (zlib, liblzma, libbz2, lz4frame), by their API contract
\* ------------------------------------------------------------------------
HeaderLen(f) ==
    CASE f = "GZIP" -> 10 [] f = "XZ" -> 12 [] f = "LZMA" -> 13
      [] f = "BZIP2" -> 4 [] f = "LZ4" -> 7 [] OTHER -> 4

TrailerLen(f) ==
    CASE f = "GZIP" -> 8 [] f = "XZ" -> 12 [] f = "LZMA" -> 5
      [] f = "BZIP2" -> 10 [] f = "LZ4" -> 8 [] OTHER -> 4

\* r plaintext bytes pack into one stream byte
Body(n, r) == (n + r - 1) \div r

EncLen(f, n, r) == HeaderLen(f) + Body(n, r) + TrailerLen(f)

\* plaintext bytes a decoder can produce from the first c stream bytes
Decodable(f, n, r, c) ==
    IF c <= HeaderLen(f) THEN 0 ELSE Min(n, (c - HeaderLen(f)) * r)

\* which stream formats a transcoder's decoder accepts
Accepts(fn) ==
    CASE fn = "gzip" -> {"GZIP"} [] fn = "lzma" -> {"XZ", "LZMA"}
      [] fn = "bzip2" -> {"BZIP2"} [] fn = "lz4" -> {"LZ4"} [] OTHER -> {}

\* number of leading bytes of buffer b that are an intact stream for fn
ValidLen(fn, b) ==
    IF b.segs = <<>> THEN 0
    ELSE LET h == b.segs[1] IN
         IF h.t = "enc" /\ h.a = 0 /\ h.f \in Accepts(fn)
         THEN IF b.bad >= 0 /\ b.bad < h.b THEN b.bad ELSE h.b
         ELSE 0

StreamFmt(b) == IF b.segs = <<>> THEN "" ELSE b.segs[1].f

StreamN(b) == IF b.segs = <<>> THEN 0 ELSE b.segs[1].n

\* a codec stream: next_in/avail_in as the caller set them and the codec
\* advanced them, plus what the codec has consumed (cin) and produced (cout),
\* whether it consumed the buffer front to back without a gap (seq) and its
\* state: "run", "end" (end of stream reached), "err" (stream fault)
NoStrm == [next_in |-> 0, avail_in |-> 0, cin |-> 0, cout |-> 0,
           seq |-> TRUE, st |-> "none"]

NewStrm == [NoStrm EXCEPT !.st = "run"]

\* one decoding call (inflate, lzma_code, BZ2_bzDecompress, LZ4F_decompress)
\* with room for avail_out bytes; res is OK, END, BUF (no progress) or DATA
DecStep(s, fn, b, r, avail_out) ==
    LET f    == StreamFmt(b)
        n    == StreamN(b)
        v    == ValidLen(fn, b)
        L    == EncLen(f, n, r)
        lim  == s.next_in + s.avail_in
        stop == Max(s.cin, Min(lim, v))
        can  == Decodable(f, n, r, stop) - s.cout
    IN  IF s.st = "end" THEN [strm |-> s, have |-> 0, res |-> "END"]
        ELSE IF s.st = "err" THEN [strm |-> s, have |-> 0, res |-> "DATA"]
        ELSE IF s.avail_in > 0 /\ s.next_in # s.cin
        THEN [strm |-> [s EXCEPT !.st = "err", !.seq = FALSE],
              have |-> 0, res |-> "DATA"]
        ELSE IF can > avail_out
        THEN LET o2 == s.cout + avail_out
                 c2 == Max(s.cin, HeaderLen(f) + ((o2 + r - 1) \div r))
             IN [strm |-> [s EXCEPT !.cin = c2, !.next_in = c2,
                                    !.avail_in = lim - c2, !.cout = o2],
                 have |-> avail_out, res |-> "OK"]
        ELSE LET s2 == [s EXCEPT !.cin = stop, !.next_in = stop,
                                 !.avail_in = lim - stop,
                                 !.cout = s.cout + can]
             IN IF v > 0 /\ stop = L
                THEN [strm |-> [s2 EXCEPT !.st = "end"],
                      have |-> can, res |-> "END"]
                ELSE IF stop < lim
                THEN [strm |-> [s2 EXCEPT !.st = "err"],
                      have |-> can, res |-> "DATA"]
                ELSE IF stop > s.cin \/ can > 0
                THEN [strm |-> s2, have |-> can, res |-> "OK"]
                ELSE [strm |-> s2, have |-> 0, res |-> "BUF"]

\* one encoding call (deflate, lzma_code, BZ2_bzCompress, LZ4F_compressUpdate
\* / LZ4F_compressEnd): takes all of avail_in, gives up to avail_out bytes
EncStep(s, f, r, avail_out, finish) ==
    LET cin2   == s.cin + s.avail_in
        target == IF finish THEN EncLen(f, cin2, r)
                  ELSE HeaderLen(f) + Body(cin2, r)
        have   == Max(0, Min(target - s.cout, avail_out))
        s2     == [s EXCEPT !.cin = cin2,
                            !.next_in = s.next_in + s.avail_in,
                            !.avail_in = 0,
                            !.cout = s.cout + have,
                            !.seq = s.seq /\ (s.avail_in = 0
                                              \/ s.next_in = s.cin)]
    IN  IF s.st = "end" THEN [strm |-> s, have |-> 0, res |-> "END"]
        ELSE IF finish /\ s.cout + have = target
        THEN [strm |-> [s2 EXCEPT !.st = "end"], have |-> have, res |-> "END"]
        ELSE IF s.avail_in = 0 /\ have = 0
        THEN [strm |-> s2, have |-> 0, res |-> "BUF"]
        ELSE [strm |-> s2, have |-> have, res |-> "OK"]

\* ------------------------------------------------------------------------
\* State
\* ------------------------------------------------------------------------
VARIABLES
    plain,      \* the original plaintext: [n |-> length, r |-> compressibility]
    fs,         \* the file system: path |-> file
    phase,      \* fresh, then compressed (one compression ran), then done
    tampered,   \* a file was damaged behind the tool's back
    cmd,        \* the command being run (or the last one run)
    pc,         \* where the running command stands; "idle" when none runs
    outcome,    \* how the command's comp/decomp call ended
    retval,     \* what comp/decomp returned
    buf,        \* the mapped input buffer
    size,       \* its length
    fd,         \* the path the output descriptor writes to
    fn,         \* the transcoder called
    mode,       \* its mode argument
    pos, total, ret, have, strm,
    loc,        \* the remaining locals of the transcoder
    wlog,       \* the xwrite calls of this call, in order
    handed,     \* input ranges passed to the codec or read in the last step
    lenAt,      \* offsets at which lz4_legacy read a block length
    faulted,    \* a codec step reported a stream fault during this call
    invoked,    \* a transcoder was entered during this command
    opened,     \* open_new was called during this command
    ctx,        \* the codec's streaming context: none, live, freed
    scratch     \* the heap output buffer: none, live, freed

envVars == <<plain, fs, phase, tampered>>

callVars == <<cmd, pc, outcome, retval, buf, size, fd, fn, mode>>

locVars == <<pos, total, ret, have, strm, loc>>

ghostVars == <<wlog, handed, lenAt, faulted, invoked, opened>>

resVars == <<ctx, scratch>>

vars == <<plain, fs, phase, tampered, cmd, pc, outcome, retval, buf, size,
          fd, fn, mode, pos, total, ret, have, strm, loc, wlog, handed,
          lenAt, faulted, invoked, opened, ctx, scratch>>

\* ------------------------------------------------------------------------
\* Inputs
\* ------------------------------------------------------------------------
\* the window each transcoder cuts its input into
Window(type) ==
    CASE type \in {"GZIP", "BZIP2"} -> CHUNK
      [] type \in {"XZ", "LZMA"} -> BUFSIZ
      [] type = "LZ4" -> blockSize
      [] OTHER -> LZ4_LEGACY_BLOCKSIZE

Windows == {BUFSIZ, CHUNK, blockSize, LZ4_LEGACY_BLOCKSIZE}

\* empty, shorter than a magic, shorter than a header, one byte under / on /
\* over each window boundary, and the lengths around the legacy block bound
Lens ==
    {0, 1, 3, 30}
      \cup {k * w + d : k \in 1..MaxWindows, w \in Windows, d \in {0, 1}}
      \cup {LZ4_LEGACY_BLOCKSIZE - 1, LZ4_COMPRESSBOUND(LZ4_LEGACY_BLOCKSIZE),
            LZ4_COMPRESSBOUND(LZ4_LEGACY_BLOCKSIZE) + 1, 9000000}

Ratios == {1, 2}

InBound(type, sz) == sz <= MaxWindows * Window(type) + 64

PlainSegs(n) == IF n = 0 THEN <<>> ELSE <<Raw(0, n)>>

SrcPath == <<"a">>

\* the files behind the descriptors passed to comp / decomp directly
CompOut == <<"fd">>

DecompOut == <<"fd2">>

CompDests == {NULL, <<"out">>, <<"out", "gz">>}

DecompDests == {NULL, <<"res">>}

MethodNames == Methods \cup {"zip"}

\* where the environment may cut a file of sz bytes
TruncPoints(sz) == {k \in {3, sz - 1} : k >= 0 /\ k < sz}

NoCmd == [op |-> "none", method |-> "", type |-> "", from |-> NULL,
          to |-> NULL, fromstr |-> NULL, ext |-> NULL, implicit |-> FALSE]

NoLoc == [flush |-> "", avail_in |-> 0, avail_out |-> 0, read |-> 0,
          block_size |-> 0, insize |-> 0, outCapacity |-> 0,
          allow_buf_error |-> FALSE]

Init ==
    /\ plain \in [n : Lens, r : Ratios]
    /\ fs = (SrcPath :> File(PlainSegs(plain.n), -1, ""))
    /\ phase = "fresh"
    /\ tampered = FALSE
    /\ cmd = NoCmd
    /\ pc = "idle"
    /\ outcome = "none"
    /\ retval = 0
    /\ buf = NoFile
    /\ size = 0
    /\ fd = NULL
    /\ fn = ""
    /\ mode = 0
    /\ pos = 0 /\ total = 0 /\ ret = "" /\ have = 0
    /\ strm = NoStrm
    /\ loc = NoLoc
    /\ wlog = <<>>
    /\ handed = <<>>
    /\ lenAt = <<>>
    /\ faulted = FALSE
    /\ invoked = FALSE
    /\ opened = FALSE
    /\ ctx = "none"
    /\ scratch = "none"

\* ------------------------------------------------------------------------
\* Helpers outside compress.c (utils, types, logging)
\* ------------------------------------------------------------------------
\* check_type: the tag of a buffer, from its leading magic bytes
MagicLen(f) ==
    CASE f = "GZIP" -> 4 [] f = "XZ" -> 6 [] f = "LZMA" -> 3
      [] f = "BZIP2" -> 3 [] OTHER -> 4

check_type(file) ==
    IF file.segs = <<>> THEN "UNKNOWN"
    ELSE LET h == file.segs[1] IN
         IF /\ h.t = "enc" /\ h.a = 0 /\ h.b >= MagicLen(h.f)
            /\ ~(file.bad >= 0 /\ file.bad < MagicLen(h.f))
         THEN h.f
         ELSE IF h.t = "magic" /\ ~(file.bad >= 0 /\ file.bad < 4)
         THEN "LZ4_LEGACY"
         ELSE "UNKNOWN"

\* open_new: create the file, or empty it if it exists
open_new(files, path) ==
    [p \in (DOMAIN files) \cup {path} |->
        IF p = path THEN NoFile ELSE files[p]]

unlink(files, path) == [p \in (DOMAIN files) \ {path} |-> files[p]]

\* xwrite: all the bytes reach the file
xwrite(files, path, seg) ==
    [files EXCEPT ![path] = File(Put(@.segs, seg), -1, "")]

\* the state a command starts from
Fresh ==
    /\ retval' = 0
    /\ fn' = "" /\ mode' = 0
    /\ pos' = 0 /\ total' = 0 /\ ret' = "" /\ have' = 0
    /\ strm' = NoStrm /\ loc' = NoLoc
    /\ wlog' = <<>> /\ handed' = <<>> /\ lenAt' = <<>>
    /\ faulted' = FALSE /\ invoked' = FALSE
    /\ ctx' = "none" /\ scratch' = "none"

\* LOGE: print and exit(1); the process ends where it stands
LOGE ==
    /\ outcome' = "exited"
    /\ pc' = "idle"

\* a signal ends the process
Crash ==
    /\ outcome' = "crashed"
    /\ pc' = "idle"

\* where control goes when comp/decomp returns
AfterCall ==
    CASE cmd.op = "decomp_file" -> "decomp_file_close"
      [] cmd.op = "comp_file" -> "comp_file_close"
      [] OTHER -> "idle"

\* a transcoder returns t to comp/decomp, which returns it to its caller;
\* files is the file system after the transcoder's last write
Return(t, files) ==
    /\ retval' = t
    /\ outcome' = "returned"
    /\ pc' = AfterCall
    /\ fs' = IF mode = 0 THEN files
             ELSE [files EXCEPT ![fd].prov = cmd.type]

\* ------------------------------------------------------------------------
\* comp_file, decomp_file and direct calls of comp / decomp
\* ------------------------------------------------------------------------
\* variant of MethodType that sends lz4_legacy to the frame format: C13 must
\* not survive it
MethodType_OneLz4(method) ==
    CASE method = "gzip" -> "GZIP" [] method = "xz" -> "XZ"
      [] method = "lzma" -> "LZMA" [] method = "lz4" -> "LZ4"
      [] method = "lz4_legacy" -> "LZ4" [] method = "bzip2" -> "BZIP2"
      [] OTHER -> "UNKNOWN"

MethodType(method) ==
    CASE method = "gzip" -> "GZIP" [] method = "xz" -> "XZ"
      [] method = "lzma" -> "LZMA" [] method = "lz4" -> "LZ4"
      [] method = "lz4_legacy" -> "LZ4_LEGACY" [] method = "bzip2" -> "BZIP2"
      [] OTHER -> "UNKNOWN"

MethodExt(method) ==
    CASE method = "gzip" -> "gz" [] method = "xz" -> "xz"
      [] method = "lzma" -> "lzma" [] method = "lz4" -> "lz4"
      [] method = "lz4_legacy" -> "lz4" [] method = "bzip2" -> "bz2"
      [] OTHER -> ""

KnownMethod(method) == method \in Methods

\* strrchr(from, '.'): the last component of a dotted path, "" for NULL
Suffix(path) == IF Len(path) > 1 THEN path[Len(path)] ELSE ""

\* variant of ExtOk that accepts any suffix: C7 must not survive it
ExtOk_AnySuffix(type, ext) == TRUE

\* variant of ExtOk that gives the legacy format a suffix of its own: C12 must
\* not survive it
ExtOk_LegacySuffix(type, ext) ==
    CASE type = "GZIP" -> ext = "gz"
      [] type = "XZ" -> ext = "xz"
      [] type = "LZMA" -> ext = "lzma"
      [] type = "BZIP2" -> ext = "bz2"
      [] type = "LZ4" -> ext = "lz4"
      [] type = "LZ4_LEGACY" -> ext = "lz4l"
      [] OTHER -> FALSE

\* the switch of decomp_file: does the suffix match the detected type
ExtOk(type, ext) ==
    CASE type = "GZIP" -> ext = "gz"
      [] type = "XZ" -> ext = "xz"
      [] type = "LZMA" -> ext = "lzma"
      [] type = "BZIP2" -> ext = "bz2"
      [] type \in {"LZ4_LEGACY", "LZ4"} -> ext = "lz4"
      [] OTHER -> FALSE

comp_file(method, from, to) ==
    /\ pc = "idle" /\ phase = "fresh"
    /\ plain.n <= MaxFileLen
    /\ from \in DOMAIN fs /\ fs[from].segs = PlainSegs(plain.n)
    /\ to # from
    /\ phase' = "compressed"
    /\ Fresh
    /\ LET type == MethodType(method)
           ext  == MethodExt(method)
           dest == IF to = NULL THEN Append(from, ext) ELSE to
       IN  /\ cmd' = [op |-> "comp_file", method |-> method, type |-> type,
                      from |-> from, to |-> to, fromstr |-> from,
                      ext |-> ext, implicit |-> (to = NULL)]
           /\ IF ~KnownMethod(method)
              THEN /\ outcome' = "exited" /\ pc' = "idle"
                   /\ opened' = FALSE
                   /\ UNCHANGED <<fs, buf, size, fd>>
              ELSE /\ InBound(type, Size(fs[from].segs))
                   /\ buf' = fs[from]
                   /\ size' = Size(fs[from].segs)
                   /\ fs' = open_new(fs, dest)
                   /\ opened' = TRUE
                   /\ fd' = dest
                   /\ outcome' = "none"
                   /\ pc' = "comp"
    /\ UNCHANGED <<plain, tampered>>

comp_file_close ==
    /\ pc = "comp_file_close"
    /\ fs' = IF cmd.to = NULL THEN unlink(fs, cmd.from) ELSE fs
    /\ pc' = "idle"
    /\ UNCHANGED <<plain, phase, tampered, cmd, outcome, retval, buf, size,
                   fd, fn, mode>>
    /\ UNCHANGED <<locVars, ghostVars, resVars>>

decomp_file(from, to) ==
    /\ pc = "idle" /\ phase # "done"
    /\ plain.n <= MaxFileLen
    /\ from \in DOMAIN fs
    /\ to # from
    /\ phase' = "done"
    /\ Fresh
    /\ LET type     == check_type(fs[from])
           ext      == Suffix(from)
           stripped == SubSeq(from, 1, Len(from) - 1)
           dest     == IF to = NULL THEN stripped ELSE to
           ok       == ExtOk(type, ext)
       IN  /\ IF ext = "" \/ type \notin Supported \/ ~ok
              THEN /\ cmd' = [op |-> "decomp_file", method |-> "",
                              type |-> type, from |-> from, to |-> to,
                              fromstr |-> from, ext |-> ext,
                              implicit |-> FALSE]
                   /\ outcome' = "exited" /\ pc' = "idle"
                   /\ opened' = FALSE
                   /\ UNCHANGED <<fs, buf, size, fd>>
              ELSE /\ InBound(type, Size(fs[from].segs))
                   /\ cmd' = [op |-> "decomp_file", method |-> "",
                              type |-> type, from |-> from, to |-> to,
                              fromstr |-> IF to = NULL THEN stripped
                                          ELSE from,
                              ext |-> ext, implicit |-> (to = NULL)]
                   /\ buf' = fs[from]
                   /\ size' = Size(fs[from].segs)
                   /\ fs' = open_new(fs, dest)
                   /\ opened' = TRUE
                   /\ fd' = dest
                   /\ outcome' = "none"
                   /\ pc' = "decomp"
    /\ UNCHANGED <<plain, tampered>>

\* variant of decomp_file_close that unlinks without putting the suffix
\* back: C18 must not survive it
decomp_file_close_NoRestore ==
    /\ pc = "decomp_file_close"
    /\ fs' = IF cmd.implicit THEN unlink(fs, cmd.fromstr) ELSE fs
    /\ pc' = "idle"
    /\ UNCHANGED <<plain, phase, tampered, cmd, outcome, retval, buf, size,
                   fd, fn, mode>>
    /\ UNCHANGED <<locVars, ghostVars, resVars>>

decomp_file_close ==
    /\ pc = "decomp_file_close"
    /\ IF cmd.implicit
       THEN /\ cmd' = [cmd EXCEPT !.fromstr = Append(cmd.fromstr, cmd.ext)]
            /\ fs' = unlink(fs, Append(cmd.fromstr, cmd.ext))
       ELSE UNCHANGED <<cmd, fs>>
    /\ pc' = "idle"
    /\ UNCHANGED <<plain, phase, tampered, outcome, retval, buf, size, fd,
                   fn, mode>>
    /\ UNCHANGED <<locVars, ghostVars, resVars>>

\* a caller inside the tool calls comp / decomp on a buffer it holds, with a
\* descriptor it opened itself
call_comp(type, path) ==
    /\ pc = "idle" /\ phase = "fresh"
    /\ path \in DOMAIN fs
    /\ fs[path].segs = PlainSegs(plain.n)
    /\ type \in Supported => InBound(type, Size(fs[path].segs))
    /\ phase' = "compressed"
    /\ Fresh
    /\ cmd' = [NoCmd EXCEPT !.op = "comp", !.type = type, !.from = path,
                            !.fromstr = path]
    /\ buf' = fs[path]
    /\ size' = Size(fs[path].segs)
    /\ fs' = open_new(fs, CompOut)
    /\ fd' = CompOut
    /\ opened' = FALSE
    /\ outcome' = "none"
    /\ pc' = "comp"
    /\ UNCHANGED <<plain, tampered>>

call_decomp(type, path) ==
    /\ pc = "idle" /\ phase # "done"
    /\ path \in DOMAIN fs
    /\ type \in Supported => InBound(type, Size(fs[path].segs))
    /\ phase' = "done"
    /\ Fresh
    /\ cmd' = [NoCmd EXCEPT !.op = "decomp", !.type = type, !.from = path,
                            !.fromstr = path]
    /\ buf' = fs[path]
    /\ size' = Size(fs[path].segs)
    /\ fs' = open_new(fs, DecompOut)
    /\ fd' = DecompOut
    /\ opened' = FALSE
    /\ outcome' = "none"
    /\ pc' = "decomp"
    /\ UNCHANGED <<plain, tampered>>

\* the environment hands the tool a cut or damaged copy of an encoder's output
Truncate(path, k) ==
    /\ pc = "idle" /\ ~tampered /\ phase = "compressed"
    /\ path \in DOMAIN fs /\ fs[path].prov # ""
    /\ k \in TruncPoints(Size(fs[path].segs))
    /\ fs' = [fs EXCEPT ![path] = File(Take(@.segs, k), -1, "")]
    /\ tampered' = TRUE
    /\ UNCHANGED <<plain, phase>>
    /\ UNCHANGED <<callVars, locVars, ghostVars, resVars>>

Corrupt(path) ==
    /\ pc = "idle" /\ ~tampered /\ phase = "compressed"
    /\ path \in DOMAIN fs /\ fs[path].prov # ""
    /\ Size(fs[path].segs) > 0
    /\ fs' = [fs EXCEPT ![path] = File(@.segs, Size(@.segs) \div 2, "")]
    /\ tampered' = TRUE
    /\ UNCHANGED <<plain, phase>>
    /\ UNCHANGED <<callVars, locVars, ghostVars, resVars>>

\* ------------------------------------------------------------------------
\* decomp and comp
\* ------------------------------------------------------------------------
NoRoute == [fn |-> "", mode |-> -1]

\* variant of DecompRoute whose default case falls into gzip: C8 must not
\* survive it
DecompRoute_NoDefault(type) ==
    CASE type = "XZ" -> [fn |-> "lzma", mode |-> 0]
      [] type = "LZMA" -> [fn |-> "lzma", mode |-> 0]
      [] type = "BZIP2" -> [fn |-> "bzip2", mode |-> 0]
      [] type = "LZ4" -> [fn |-> "lz4", mode |-> 0]
      [] type = "LZ4_LEGACY" -> [fn |-> "lz4_legacy", mode |-> 0]
      [] OTHER -> [fn |-> "gzip", mode |-> 0]

DecompRoute(type) ==
    CASE type = "GZIP" -> [fn |-> "gzip", mode |-> 0]
      [] type = "XZ" -> [fn |-> "lzma", mode |-> 0]
      [] type = "LZMA" -> [fn |-> "lzma", mode |-> 0]
      [] type = "BZIP2" -> [fn |-> "bzip2", mode |-> 0]
      [] type = "LZ4" -> [fn |-> "lz4", mode |-> 0]
      [] type = "LZ4_LEGACY" -> [fn |-> "lz4_legacy", mode |-> 0]
      [] OTHER -> NoRoute

\* variant of CompRoute that encodes LZMA like XZ: C14 must not survive it
CompRoute_OneLzma(type) ==
    CASE type = "GZIP" -> [fn |-> "gzip", mode |-> 1]
      [] type = "XZ" -> [fn |-> "lzma", mode |-> 1]
      [] type = "LZMA" -> [fn |-> "lzma", mode |-> 1]
      [] type = "BZIP2" -> [fn |-> "bzip2", mode |-> 1]
      [] type = "LZ4" -> [fn |-> "lz4", mode |-> 1]
      [] type = "LZ4_LEGACY" -> [fn |-> "lz4_legacy", mode |-> 1]
      [] OTHER -> NoRoute

CompRoute(type) ==
    CASE type = "GZIP" -> [fn |-> "gzip", mode |-> 1]
      [] type = "XZ" -> [fn |-> "lzma", mode |-> 1]
      [] type = "LZMA" -> [fn |-> "lzma", mode |-> 2]
      [] type = "BZIP2" -> [fn |-> "bzip2", mode |-> 1]
      [] type = "LZ4" -> [fn |-> "lz4", mode |-> 1]
      [] type = "LZ4_LEGACY" -> [fn |-> "lz4_legacy", mode |-> 1]
      [] OTHER -> NoRoute

\* the switch of decomp / comp: enter the transcoder, or return -1
Dispatch(route) ==
    IF route = NoRoute
    THEN /\ Return(-1, fs)
         /\ UNCHANGED <<fn, mode, invoked>>
    ELSE /\ fn' = route.fn
         /\ mode' = route.mode
         /\ invoked' = TRUE
         /\ pc' = "init"
         /\ UNCHANGED <<fs, outcome, retval>>

decomp ==
    /\ pc = "decomp"
    /\ Dispatch(DecompRoute(cmd.type))
    /\ UNCHANGED <<plain, phase, tampered, cmd, buf, size, fd>>
    /\ UNCHANGED <<locVars, wlog, handed, lenAt, faulted, opened, resVars>>

comp ==
    /\ pc = "comp"
    /\ Dispatch(CompRoute(cmd.type))
    /\ UNCHANGED <<plain, phase, tampered, cmd, buf, size, fd>>
    /\ UNCHANGED <<locVars, wlog, handed, lenAt, faulted, opened, resVars>>

\* ------------------------------------------------------------------------
\* gzip
\* ------------------------------------------------------------------------
\* the format a transcoder writes in encode mode
EncFmt ==
    CASE fn = "gzip" -> "GZIP" [] fn = "bzip2" -> "BZIP2" [] fn = "lz4" -> "LZ4"
      [] fn = "lzma" -> (IF mode = 1 THEN "XZ" ELSE "LZMA")
      [] OTHER -> "LZ4_LEGACY"

\* what a codec call put into out: plaintext when decoding, stream bytes when
\* encoding (junk if the codec was not fed the buffer front to back)
Produced(s0, step) ==
    IF mode = 0 THEN Raw(s0.cout, s0.cout + step.have)
    ELSE IF step.strm.seq
         THEN Enc(EncFmt, size, s0.cout, s0.cout + step.have)
         ELSE Junk(step.have)

gzip_init ==
    /\ pc = "init" /\ fn = "gzip"
    /\ strm' = NewStrm
    /\ ctx' = "live"
    /\ ret' = "Z_OK"
    /\ pos' = 0 /\ total' = 0
    /\ pc' = "outer"
    /\ UNCHANGED <<envVars, cmd, outcome, retval, buf, size, fd, fn, mode>>
    /\ UNCHANGED <<have, loc, ghostVars, scratch>>

gzip_avail_in(p, sz) == IF p + CHUNK >= sz THEN sz - p ELSE CHUNK

\* variant of gzip_flush that misses the finish when the last window is a
\* full one: C15 must not survive it
gzip_flush_Strict(p, sz) == IF p + CHUNK > sz THEN "Z_FINISH" ELSE "Z_NO_FLUSH"

gzip_flush(p, sz) == IF p + CHUNK >= sz THEN "Z_FINISH" ELSE "Z_NO_FLUSH"

gzip_outer ==
    /\ pc = "outer" /\ fn = "gzip"
    /\ strm' = [strm EXCEPT !.next_in = pos,
                            !.avail_in = gzip_avail_in(pos, size)]
    /\ loc' = [loc EXCEPT !.flush = gzip_flush(pos, size)]
    /\ handed' = <<[lo |-> pos, n |-> gzip_avail_in(pos, size)]>>
    /\ pos' = pos + gzip_avail_in(pos, size)
    /\ pc' = "inner"
    /\ UNCHANGED <<envVars, cmd, outcome, retval, buf, size, fd, fn, mode>>
    /\ UNCHANGED <<total, ret, have, wlog, lenAt, faulted, invoked, opened>>
    /\ UNCHANGED resVars

\* variant of gzip_while that stops one window early: C11 must not survive it
gzip_while_Early(p, sz) == p + CHUNK < sz

\* the condition of the outer loop
gzip_while(p, sz) == p < sz

\* the return code of inflate / deflate
ZRet(s0, step, flush) ==
    CASE step.res = "END" -> "Z_STREAM_END"
      [] step.res = "DATA" -> "Z_DATA_ERROR"
      [] step.res = "BUF" -> "Z_BUF_ERROR"
      [] OTHER -> IF mode = 0 /\ flush = "Z_FINISH" THEN "Z_BUF_ERROR"
                  ELSE "Z_OK"

gzip_inner ==
    /\ pc = "inner" /\ fn = "gzip"
    /\ LET step == IF mode = 0
                   THEN DecStep(strm, "gzip", buf, plain.r, CHUNK)
                   ELSE EncStep(strm, "GZIP", plain.r, CHUNK,
                                loc.flush = "Z_FINISH")
           r    == ZRet(strm, step, loc.flush)
           out  == Produced(strm, step)
       IN  /\ strm' = step.strm
           /\ ret' = r
           /\ faulted' = (faulted \/ step.res = "DATA")
           /\ IF r = "Z_STREAM_ERROR"
              THEN /\ LOGE
                   /\ UNCHANGED <<fs, have, total, wlog, loc>>
              ELSE /\ have' = step.have
                   /\ loc' = [loc EXCEPT !.avail_out = CHUNK - step.have]
                   /\ fs' = xwrite(fs, fd, out)
                   /\ wlog' = Append(wlog, out)
                   /\ total' = total + step.have
                   /\ pc' = IF CHUNK - step.have = 0 THEN "inner"
                            ELSE IF gzip_while(pos, size) THEN "outer"
                            ELSE "end"
                   /\ UNCHANGED outcome
    /\ UNCHANGED <<plain, phase, tampered, cmd, retval, buf, size, fd, fn,
                   mode>>
    /\ UNCHANGED <<pos, handed, lenAt, invoked, opened, resVars>>

gzip_end ==
    /\ pc = "end" /\ fn = "gzip"
    /\ ctx' = "freed"
    /\ Return(total, fs)
    /\ UNCHANGED <<plain, phase, tampered, cmd, buf, size, fd, fn, mode>>
    /\ UNCHANGED <<locVars, ghostVars, scratch>>

\* ------------------------------------------------------------------------
\* lzma
\* ------------------------------------------------------------------------
lzma_init ==
    /\ pc = "init" /\ fn = "lzma"
    /\ strm' = NewStrm
    /\ ctx' = "live"
    /\ ret' = "LZMA_OK"
    /\ pos' = 0 /\ total' = 0
    /\ pc' = "outer"
    /\ UNCHANGED <<envVars, cmd, outcome, retval, buf, size, fd, fn, mode>>
    /\ UNCHANGED <<have, loc, ghostVars, scratch>>

lzma_avail_in(p, sz) == IF p + BUFSIZ >= sz THEN sz - p ELSE BUFSIZ

lzma_action(p, sz) == IF p + BUFSIZ >= sz THEN "LZMA_FINISH" ELSE "LZMA_RUN"

lzma_outer ==
    /\ pc = "outer" /\ fn = "lzma"
    /\ strm' = [strm EXCEPT !.next_in = pos,
                            !.avail_in = lzma_avail_in(pos, size)]
    /\ loc' = [loc EXCEPT !.flush = lzma_action(pos, size)]
    /\ handed' = <<[lo |-> pos, n |-> lzma_avail_in(pos, size)]>>
    /\ pos' = pos + lzma_avail_in(pos, size)
    /\ pc' = "inner"
    /\ UNCHANGED <<envVars, cmd, outcome, retval, buf, size, fd, fn, mode>>
    /\ UNCHANGED <<total, ret, have, wlog, lenAt, faulted, invoked, opened>>
    /\ UNCHANGED resVars

\* the return code of lzma_code: a call without progress is LZMA_OK the first
\* time and LZMA_BUF_ERROR the second time in a row
LzmaRet(step, allow_buf_error) ==
    CASE step.res = "END" -> "LZMA_STREAM_END"
      [] step.res = "DATA" -> "LZMA_DATA_ERROR"
      [] step.res = "BUF" -> IF allow_buf_error THEN "LZMA_BUF_ERROR"
                             ELSE "LZMA_OK"
      [] OTHER -> "LZMA_OK"

lzma_inner ==
    /\ pc = "inner" /\ fn = "lzma"
    /\ LET step == IF mode = 0
                   THEN DecStep(strm, "lzma", buf, plain.r, BUFSIZ)
                   ELSE EncStep(strm, EncFmt, plain.r, BUFSIZ,
                                loc.flush = "LZMA_FINISH")
           r    == LzmaRet(step, loc.allow_buf_error)
           out  == Produced(strm, step)
           more == (BUFSIZ - step.have = 0) /\ r = "LZMA_OK"
       IN  /\ strm' = step.strm
           /\ ret' = r
           /\ faulted' = (faulted \/ step.res = "DATA")
           /\ have' = step.have
           /\ loc' = [loc EXCEPT !.avail_out = BUFSIZ - step.have,
                                 !.allow_buf_error = (step.res = "BUF")]
           /\ fs' = xwrite(fs, fd, out)
           /\ wlog' = Append(wlog, out)
           /\ total' = total + step.have
           /\ IF ~more /\ r # "LZMA_OK" /\ r # "LZMA_STREAM_END"
              THEN LOGE
              ELSE /\ pc' = IF more THEN "inner"
                            ELSE IF pos < size THEN "outer" ELSE "end"
                   /\ UNCHANGED outcome
    /\ UNCHANGED <<plain, phase, tampered, cmd, retval, buf, size, fd, fn,
                   mode>>
    /\ UNCHANGED <<pos, handed, lenAt, invoked, opened, resVars>>

lzma_end ==
    /\ pc = "end" /\ fn = "lzma"
    /\ ctx' = "freed"
    /\ Return(total, fs)
    /\ UNCHANGED <<plain, phase, tampered, cmd, buf, size, fd, fn, mode>>
    /\ UNCHANGED <<locVars, ghostVars, scratch>>

\* ------------------------------------------------------------------------
\* bzip2
\* ------------------------------------------------------------------------
bzip2_init ==
    /\ pc = "init" /\ fn = "bzip2"
    /\ strm' = NewStrm
    /\ ctx' = "live"
    /\ ret' = "BZ_OK"
    /\ pos' = 0 /\ total' = 0
    /\ pc' = "outer"
    /\ UNCHANGED <<envVars, cmd, outcome, retval, buf, size, fd, fn, mode>>
    /\ UNCHANGED <<have, loc, ghostVars, scratch>>

bzip2_avail_in(p, sz) == IF p + CHUNK >= sz THEN sz - p ELSE CHUNK

bzip2_action(p, sz) == IF p + CHUNK >= sz THEN "BZ_FINISH" ELSE "BZ_RUN"

bzip2_outer ==
    /\ pc = "outer" /\ fn = "bzip2"
    /\ strm' = [strm EXCEPT !.next_in = pos,
                            !.avail_in = bzip2_avail_in(pos, size)]
    /\ loc' = [loc EXCEPT !.flush = bzip2_action(pos, size)]
    /\ handed' = <<[lo |-> pos, n |-> bzip2_avail_in(pos, size)]>>
    /\ pos' = pos + bzip2_avail_in(pos, size)
    /\ pc' = "inner"
    /\ UNCHANGED <<envVars, cmd, outcome, retval, buf, size, fd, fn, mode>>
    /\ UNCHANGED <<total, ret, have, wlog, lenAt, faulted, invoked, opened>>
    /\ UNCHANGED resVars

\* the return code of BZ2_bzDecompress / BZ2_bzCompress
BzRet(s0, step, action) ==
    CASE s0.st = "end" -> "BZ_SEQUENCE_ERROR"
      [] step.res = "END" -> "BZ_STREAM_END"
      [] step.res = "DATA" -> "BZ_DATA_ERROR"
      [] OTHER -> IF mode = 0 THEN "BZ_OK"
                  ELSE IF action = "BZ_FINISH" THEN "BZ_FINISH_OK"
                  ELSE "BZ_RUN_OK"

bzip2_inner ==
    /\ pc = "inner" /\ fn = "bzip2"
    /\ LET step == IF mode = 0
                   THEN DecStep(strm, "bzip2", buf, plain.r, CHUNK)
                   ELSE EncStep(strm, "BZIP2", plain.r, CHUNK,
                                loc.flush = "BZ_FINISH")
           out  == Produced(strm, step)
       IN  /\ strm' = step.strm
           /\ ret' = BzRet(strm, step, loc.flush)
           /\ faulted' = (faulted \/ step.res = "DATA")
           /\ have' = step.have
           /\ loc' = [loc EXCEPT !.avail_out = CHUNK - step.have]
           /\ fs' = xwrite(fs, fd, out)
           /\ wlog' = Append(wlog, out)
           /\ total' = total + step.have
           /\ pc' = IF CHUNK - step.have = 0 THEN "inner"
                    ELSE IF pos < size THEN "outer" ELSE "end"
    /\ UNCHANGED <<plain, phase, tampered, cmd, outcome, retval, buf, size,
                   fd, fn, mode>>
    /\ UNCHANGED <<pos, handed, lenAt, invoked, opened, resVars>>

bzip2_end ==
    /\ pc = "end" /\ fn = "bzip2"
    /\ ctx' = "freed"
    /\ Return(total, fs)
    /\ UNCHANGED <<plain, phase, tampered, cmd, buf, size, fd, fn, mode>>
    /\ UNCHANGED <<locVars, ghostVars, scratch>>

\* ------------------------------------------------------------------------
\* lz4 (LZ4 frame format)
\* ------------------------------------------------------------------------
\* lz4frame: LZ4F_compressFrameBound(srcSize, NULL) for srcSize a multiple of
\* 64 KiB: the largest header, 64 KiB blocks with 4-byte headers, end mark
\* and checksum
LZ4F_compressFrameBound(srcSize) ==
    LZ4_HEADER_SIZE + 4 * (srcSize \div 65536) + srcSize + 8

\* LZ4F_getFrameInfo(dctx, &info, buf, &read) told that read = blockSize bytes
\* are there: it parses the frame header if the buffer holds one, reports an
\* error if the bytes are no header, and reads past the buffer if the buffer
\* is shorter than a header
FrameInfoOutcomes(b, sz) ==
    IF ValidLen("lz4", b) >= HeaderLen("LZ4") THEN {"ok"}
    ELSE IF sz >= HeaderLen("LZ4") THEN {"error"}
    ELSE {"error", "crash", "accept"}

lz4_init ==
    /\ pc = "init" /\ fn = "lz4"
    /\ ctx' = "live"
    /\ IF mode = 0
       THEN /\ handed' = <<[lo |-> 0, n |-> blockSize]>>
            /\ \E o \in FrameInfoOutcomes(buf, size) :
                 CASE o = "error" ->
                        /\ LOGE
                        /\ ret' = "error"
                        /\ UNCHANGED <<pos, total, strm, loc, scratch>>
                   [] o = "crash" ->
                        /\ Crash
                        /\ UNCHANGED <<pos, total, ret, strm, loc, scratch>>
                   [] OTHER ->
                        /\ strm' = [NewStrm EXCEPT
                                      !.cin = HeaderLen("LZ4"),
                                      !.next_in = HeaderLen("LZ4")]
                        /\ loc' = [loc EXCEPT
                                      !.read = HeaderLen("LZ4"),
                                      !.outCapacity =
                                         IF o = "ok" THEN blockSize
                                         ELSE 65536]
                        /\ ret' = "hint"
                        /\ pos' = HeaderLen("LZ4")
                        /\ total' = 0
                        /\ scratch' = "live"
                        /\ pc' = "outer"
                        /\ UNCHANGED outcome
            /\ UNCHANGED <<fs, wlog, have>>
       ELSE /\ handed' = <<>>
            /\ loc' = [loc EXCEPT
                         !.outCapacity = LZ4F_compressFrameBound(blockSize)]
            /\ scratch' = "live"
            /\ pos' = 0
            /\ IF size < LZ4_HEADER_SIZE
               THEN /\ LOGE
                    /\ ret' = "error"
                    /\ UNCHANGED <<fs, wlog, have, total, strm>>
               ELSE /\ strm' = [NewStrm EXCEPT !.cout = HeaderLen("LZ4")]
                    /\ have' = HeaderLen("LZ4")
                    /\ ret' = "n"
                    /\ fs' = xwrite(fs, fd, Enc("LZ4", size, 0,
                                                HeaderLen("LZ4")))
                    /\ wlog' = Append(wlog, Enc("LZ4", size, 0,
                                                HeaderLen("LZ4")))
                    /\ total' = HeaderLen("LZ4")
                    /\ pc' = "outer"
                    /\ UNCHANGED outcome
    /\ UNCHANGED <<plain, phase, tampered, cmd, retval, buf, size, fd, fn,
                   mode>>
    /\ UNCHANGED <<lenAt, faulted, invoked, opened>>

lz4_avail_in(p, sz) ==
    IF p + blockSize >= sz THEN SubSizeT(sz, p) ELSE blockSize

lz4_outer ==
    /\ pc = "outer" /\ fn = "lz4"
    /\ loc' = [loc EXCEPT !.avail_in = lz4_avail_in(pos, size)]
    /\ pc' = "inner"
    /\ UNCHANGED <<envVars, cmd, outcome, retval, buf, size, fd, fn, mode>>
    /\ UNCHANGED <<pos, total, ret, have, strm, ghostVars, resVars>>

lz4_inner ==
    /\ pc = "inner" /\ fn = "lz4"
    /\ handed' = <<[lo |-> pos, n |-> loc.avail_in]>>
    /\ LET s0 == [strm EXCEPT !.next_in = pos, !.avail_in = loc.avail_in]
       IN
       IF mode = 0 /\ pos + loc.avail_in > size
       THEN \* LZ4F_decompress reads past the end of the buffer
            /\ \E o \in {"error", "crash"} :
                 IF o = "error" THEN LOGE /\ ret' = "error"
                 ELSE Crash /\ UNCHANGED ret
            /\ UNCHANGED <<fs, wlog, have, total, pos, strm, loc, faulted>>
       ELSE LET step == IF mode = 0
                        THEN DecStep(s0, "lz4", buf, plain.r,
                                     loc.outCapacity)
                        ELSE EncStep(s0, "LZ4", plain.r, loc.outCapacity,
                                     FALSE)
                read == step.strm.next_in - pos
                r    == IF step.res = "DATA" THEN "error"
                        ELSE IF mode = 0
                        THEN (IF step.res = "END" THEN "0" ELSE "hint")
                        ELSE (IF step.have = 0 THEN "0" ELSE "n")
                out  == Produced(s0, step)
            IN  /\ strm' = step.strm
                /\ ret' = r
                /\ faulted' = (faulted \/ step.res = "DATA")
                /\ IF r = "error"
                   THEN /\ LOGE
                        /\ UNCHANGED <<fs, wlog, have, total, pos, loc>>
                   ELSE /\ have' = step.have
                        /\ fs' = xwrite(fs, fd, out)
                        /\ wlog' = Append(wlog, out)
                        /\ total' = total + step.have
                        /\ pos' = pos + read
                        /\ loc' = [loc EXCEPT !.read = read,
                                              !.avail_in = @ - read]
                        /\ pc' = IF loc.avail_in - read # 0 /\ r # "0"
                                 THEN "inner"
                                 ELSE IF pos + read < size /\ r # "0"
                                 THEN "outer" ELSE "end"
                        /\ UNCHANGED outcome
    /\ UNCHANGED <<plain, phase, tampered, cmd, retval, buf, size, fd, fn,
                   mode>>
    /\ UNCHANGED <<lenAt, invoked, opened, resVars>>

lz4_end ==
    /\ pc = "end" /\ fn = "lz4"
    /\ ctx' = "freed"
    /\ scratch' = "freed"
    /\ IF mode = 0
       THEN /\ Return(total, fs)
            /\ UNCHANGED <<locVars, wlog>>
       ELSE LET step == EncStep([strm EXCEPT !.avail_in = 0], "LZ4",
                                plain.r, loc.outCapacity, TRUE)
                out  == Produced(strm, step)
            IN  /\ strm' = step.strm
                /\ have' = step.have
                /\ ret' = "n"
                /\ wlog' = Append(wlog, out)
                /\ total' = total + step.have
                /\ Return(total + step.have, xwrite(fs, fd, out))
                /\ UNCHANGED <<pos, loc>>
    /\ UNCHANGED <<plain, phase, tampered, cmd, buf, size, fd, fn, mode>>
    /\ UNCHANGED <<handed, lenAt, faulted, invoked, opened>>

\* ------------------------------------------------------------------------
\* lz4_legacy
\* ------------------------------------------------------------------------
\* the value of the bytes 02 21 4C 18 read as a little-endian unsigned
LegacyMagicValue == 407642370

\* what reading 4 bytes of no known value can give
GarbageU32 == {0, 1, LZ4_COMPRESSBOUND(LZ4_LEGACY_BLOCKSIZE) + 1}

Damaged(b, lo, n) == b.bad >= lo /\ b.bad < lo + n

\* block_size = *(unsigned *)(buf + pos): the field stored there, any value
\* if the 4 bytes are something else, any value or a fault if they lie
\* past the end of the buffer
ReadU32(b, sz, p) ==
    LET s == SegAt(b.segs, p)
        garbage == {[crash |-> FALSE, v |-> g] : g \in GarbageU32}
    IN  IF p + 4 > sz THEN garbage \cup {[crash |-> TRUE, v |-> 0]}
        ELSE IF s.t = "u32" /\ ~Damaged(b, p, 4)
        THEN {[crash |-> FALSE, v |-> s.v]}
        ELSE IF s.t = "magic" /\ ~Damaged(b, p, 4)
        THEN {[crash |-> FALSE, v |-> LegacyMagicValue]}
        ELSE garbage

\* LZ4_decompress_safe(buf + pos, out, block_size, LZ4_LEGACY_BLOCKSIZE): the
\* plaintext of the block stored there; a negative result if the bytes are
\* not one whole block; if they lie past the end of the buffer, a negative
\* result, a fault, or junk taken for a block
LZ4_decompress_safe(b, sz, p, bs) ==
    LET s   == SegAt(b.segs, p)
        err == [crash |-> FALSE, have |-> -1, out |-> NoSeg]
    IN  IF p + Max(bs, 1) > sz
        THEN {err, [crash |-> TRUE, have |-> -1, out |-> NoSeg],
              [crash |-> FALSE, have |-> 1, out |-> Junk(1)]}
        ELSE IF s.t = "blk" /\ s.v = bs /\ ~Damaged(b, p, bs)
                /\ s.b - s.a <= LZ4_LEGACY_BLOCKSIZE
        THEN {[crash |-> FALSE, have |-> s.b - s.a, out |-> Raw(s.a, s.b)]}
        ELSE {err}

\* LZ4_compress_HC(buf + pos, out, insize, bound, 9): the compressed length
LZ4_compress_HC(insize, r) == (insize \div r) + 1

\* variant of lz4_legacy_insize that never splits: C9 must not survive it
lz4_legacy_insize_Whole(p, sz) == sz - p

lz4_legacy_insize(p, sz) ==
    IF p + LZ4_LEGACY_BLOCKSIZE >= sz THEN sz - p ELSE LZ4_LEGACY_BLOCKSIZE

lz4_legacy_init ==
    /\ pc = "init" /\ fn = "lz4_legacy"
    /\ scratch' = "live"
    /\ IF mode = 0
       THEN /\ pos' = 4
            /\ total' = 0
            /\ UNCHANGED <<fs, wlog>>
       ELSE /\ pos' = 0
            /\ total' = 4
            /\ fs' = xwrite(fs, fd, Magic)
            /\ wlog' = Append(wlog, Magic)
    /\ pc' = "outer"
    /\ UNCHANGED <<plain, phase, tampered, cmd, outcome, retval, buf, size,
                   fd, fn, mode>>
    /\ UNCHANGED <<ret, have, strm, loc, handed, lenAt, faulted, invoked,
                   opened, ctx>>

\* one pass of the do-while loop: one block
lz4_legacy_loop ==
    /\ pc = "outer" /\ fn = "lz4_legacy"
    /\ IF mode = 0
       THEN /\ lenAt' = Append(lenAt, pos)
            /\ \E u \in ReadU32(buf, size, pos) :
                 IF u.crash
                 THEN /\ Crash
                      /\ handed' = <<[lo |-> pos, n |-> 4]>>
                      /\ UNCHANGED <<fs, wlog, pos, total, have, loc,
                                     faulted>>
                 ELSE IF u.v > LZ4_COMPRESSBOUND(LZ4_LEGACY_BLOCKSIZE)
                 THEN /\ handed' = <<[lo |-> pos, n |-> 4]>>
                      /\ loc' = [loc EXCEPT !.block_size = u.v]
                      /\ pos' = pos + 4
                      /\ pc' = "end"
                      /\ UNCHANGED <<fs, wlog, total, have, faulted, outcome>>
                 ELSE
                   /\ handed' = <<[lo |-> pos, n |-> 4],
                                  [lo |-> pos + 4, n |-> u.v]>>
                   /\ loc' = [loc EXCEPT !.block_size = u.v]
                   /\ \E d \in LZ4_decompress_safe(buf, size, pos + 4, u.v) :
                        IF d.crash
                        THEN /\ Crash
                             /\ pos' = pos + 4
                             /\ UNCHANGED <<fs, wlog, total, have, faulted>>
                        ELSE IF d.have < 0
                        THEN /\ LOGE
                             /\ have' = d.have
                             /\ faulted' = TRUE
                             /\ pos' = pos + 4
                             /\ UNCHANGED <<fs, wlog, total>>
                        ELSE /\ have' = d.have
                             /\ pos' = pos + 4 + u.v
                             /\ fs' = xwrite(fs, fd, d.out)
                             /\ wlog' = Append(wlog, d.out)
                             /\ total' = total + d.have
                             /\ pc' = IF pos + 4 + u.v < size THEN "outer"
                                      ELSE "end"
                             /\ UNCHANGED <<faulted, outcome>>
       ELSE LET insize == lz4_legacy_insize(pos, size)
                h      == LZ4_compress_HC(insize, plain.r)
                blk    == Blk(pos, pos + insize, h)
            IN  /\ handed' = <<[lo |-> pos, n |-> insize]>>
                /\ loc' = [loc EXCEPT !.insize = insize]
                /\ have' = h
                /\ pos' = pos + insize
                /\ fs' = xwrite(xwrite(fs, fd, U32(h)), fd, blk)
                /\ wlog' = wlog \o <<U32(h), blk>>
                /\ total' = total + 4 + h
                /\ pc' = IF pos + insize < size THEN "outer" ELSE "end"
                /\ UNCHANGED <<lenAt, faulted, outcome>>
    /\ UNCHANGED <<plain, phase, tampered, cmd, retval, buf, size, fd, fn,
                   mode>>
    /\ UNCHANGED <<ret, strm, invoked, opened, resVars>>

\* variant of lz4_legacy_uncomp that stores the bytes written so far: C10
\* must not survive it
lz4_legacy_uncomp_Total(sz, tot) == tot

\* the value written after the last block (sizes here are below 2^32, so the
\* conversion to unsigned keeps the value)
lz4_legacy_uncomp(sz, tot) == sz

\* done: the trailing size field (encode), free, return
lz4_legacy_done ==
    /\ pc = "end" /\ fn = "lz4_legacy"
    /\ scratch' = "freed"
    /\ IF mode = 1
       THEN /\ wlog' = Append(wlog, U32(lz4_legacy_uncomp(size, total)))
            /\ Return(total,
                      xwrite(fs, fd, U32(lz4_legacy_uncomp(size, total))))
       ELSE /\ Return(total, fs)
            /\ UNCHANGED wlog
    /\ UNCHANGED <<plain, phase, tampered, cmd, buf, size, fd, fn, mode>>
    /\ UNCHANGED <<locVars, handed, lenAt, faulted, invoked, opened, ctx>>

\* ------------------------------------------------------------------------
\* The tool
\* ------------------------------------------------------------------------
Next ==
    \/ \E m \in MethodNames, to \in CompDests : comp_file(m, SrcPath, to)
    \/ comp_file_close
    \/ \E from \in DOMAIN fs, to \in DecompDests : decomp_file(from, to)
    \/ decomp_file_close
    \/ \E t \in Tags : call_comp(t, SrcPath)
    \/ \E t \in Tags, p \in DOMAIN fs : call_decomp(t, p)
    \/ \E p \in DOMAIN fs :
          \E k \in TruncPoints(Size(fs[p].segs)) : Truncate(p, k)
    \/ \E p \in DOMAIN fs : Corrupt(p)
    \/ decomp
    \/ comp
    \/ gzip_init \/ gzip_outer \/ gzip_inner \/ gzip_end
    \/ lzma_init \/ lzma_outer \/ lzma_inner \/ lzma_end
    \/ bzip2_init \/ bzip2_outer \/ bzip2_inner \/ bzip2_end
    \/ lz4_init \/ lz4_outer \/ lz4_inner \/ lz4_end
    \/ lz4_legacy_init \/ lz4_legacy_loop \/ lz4_legacy_done

Spec == Init /\ [][Next]_vars

\* the process is sequential: a command that has started keeps running
FairSpec == Spec /\ WF_vars(pc # "idle" /\ Next)

\* ------------------------------------------------------------------------
\* Properties
\* ------------------------------------------------------------------------
IsComp == cmd.op \in {"comp", "comp_file"}

IsDecomp == cmd.op \in {"decomp", "decomp_file"}

\* bytes written to the output during this call
Written == Size(wlog)

InRange(h) == h.lo >= 0 /\ h.lo + h.n <= size

\* C1: for every supported format, comp on a buffer and then decomp on exactly
\* the bytes comp wrote both end without error, and decomp writes the buffer.
C1_RoundTrip ==
    /\ (IsComp /\ cmd.type \in Supported) => outcome \in {"none", "returned"}
    /\ (IsDecomp /\ cmd.type \in Supported /\ buf.prov = cmd.type /\ invoked)
          => /\ outcome \in {"none", "returned"}
             /\ outcome = "returned" => fs[fd].segs = PlainSegs(plain.n)

\* C2: decoding an lz4_legacy encoder's output never reads the trailing size
\* field as a block length, and reads a length field and a payload only
\* inside the input.
C2_TrailerIsNoBlock ==
    (invoked /\ fn = "lz4_legacy" /\ mode = 0 /\ buf.prov = "LZ4_LEGACY")
       => /\ \A i \in DOMAIN lenAt : lenAt[i] # size - 4
          /\ \A i \in DOMAIN handed : InRange(handed[i])

\* C3: a decode in which a codec step reported a stream fault, or in which
\* the input ended before the codec's end of stream, does not return a total
\* as if it had succeeded.
C3_StreamFaultIsTerminal ==
    (invoked /\ mode = 0 /\ outcome = "returned")
       => /\ ~faulted
          /\ fn # "lz4_legacy" => strm.st = "end"

\* C4: in every state of a transcoder call the cursor is within the input
\* and every input range passed to the codec or read lies inside the input.
C4_CursorInBounds ==
    invoked => /\ pos >= 0 /\ pos <= size
               /\ \A i \in DOMAIN handed : InRange(handed[i])

\* C5: the total a transcoder returns is the number of bytes it wrote.
C5_TotalIsBytesWritten ==
    (invoked /\ outcome = "returned") => retval = Written

\* C6: comp_file / decomp_file delete the source only when no destination was
\* given and the transcode succeeded; after a reported stream fault or the
\* unsupported sentinel the source is still there.
C6_DeleteOnlyOnSuccess ==
    (cmd.op \in {"comp_file", "decomp_file"} /\ pc = "idle"
        /\ cmd.from \notin DOMAIN fs)
       => /\ cmd.to = NULL
          /\ outcome = "returned" /\ retval # -1 /\ ~faulted

\* the suffix the specification names for each type
SpecSuffix(type) ==
    CASE type = "GZIP" -> "gz" [] type = "XZ" -> "xz" [] type = "LZMA" -> "lzma"
      [] type = "BZIP2" -> "bz2" [] type \in {"LZ4", "LZ4_LEGACY"} -> "lz4"
      [] OTHER -> "?"

SpecMethods == {"gzip", "xz", "lzma", "lz4", "lz4_legacy", "bzip2"}

UsageError ==
    \/ cmd.op = "decomp_file" /\ cmd.ext # SpecSuffix(cmd.type)
    \/ cmd.op = "comp_file" /\ cmd.method \notin SpecMethods

\* C7: a suffix that does not match the detected type, an unsupported
\* detected type and an unknown method name end the command in failure with
\* no destination opened, nothing written, no transcoder entered and the
\* source in place.
C7_UsageErrorsDoNothing ==
    UsageError => /\ pc = "idle" /\ outcome = "exited"
                  /\ ~opened /\ ~invoked /\ wlog = <<>>
                  /\ cmd.from \in DOMAIN fs

C7_Witness ==
    /\ cmd.op = "decomp_file" /\ cmd.type \in Supported
    /\ cmd.ext # "" /\ cmd.ext # SpecSuffix(cmd.type)
    /\ outcome = "exited"

\* C8: decomp and comp return -1 for a tag outside the six supported ones,
\* entering no transcoder and writing nothing; for a supported tag they never
\* return -1.
C8_UnsupportedSentinel ==
    /\ (cmd.op \in {"comp", "decomp"} /\ cmd.type \notin Supported)
          => /\ ~invoked /\ wlog = <<>> /\ fs[fd] = NoFile
             /\ pc = "idle" => (outcome = "returned" /\ retval = -1)
    /\ (cmd.op # "none" /\ cmd.type \in Supported /\ pc \notin {"comp", "decomp"}
          /\ outcome # "exited")
          => /\ invoked
             /\ outcome = "returned" => retval # -1

C8_Witness ==
    /\ cmd.op = "decomp" /\ cmd.type = "UNKNOWN"
    /\ pc = "idle" /\ outcome = "returned" /\ retval = -1

IsBlk(s) == s.t = "blk"

Blocks == SelectSeq(wlog, IsBlk)

CeilDiv(a, b) == (a + b - 1) \div b

\* C9: lz4_legacy encode of len > 0 bytes emits ceil(len / 8 MiB) blocks: all
\* but the last cover 8 MiB, the last covers the rest, contiguous, in order.
C9_BlockCount ==
    (invoked /\ fn = "lz4_legacy" /\ mode = 1 /\ outcome = "returned"
        /\ size > 0)
       => LET N == CeilDiv(size, LZ4_LEGACY_BLOCKSIZE) IN
          /\ Len(Blocks) = N
          /\ \A i \in 1..Len(Blocks) :
                /\ Blocks[i].a = (i - 1) * LZ4_LEGACY_BLOCKSIZE
                /\ Blocks[i].b = IF i < N THEN i * LZ4_LEGACY_BLOCKSIZE
                                 ELSE size
                /\ Blocks[i].b - Blocks[i].a >= 1
                /\ Blocks[i].b - Blocks[i].a <= LZ4_LEGACY_BLOCKSIZE

C9_Witness ==
    /\ fn = "lz4_legacy" /\ mode = 1 /\ outcome = "returned"
    /\ size = 9000000 /\ Len(Blocks) = 2

\* the writes of lz4_legacy encode so far: the magic, then pairs of a length
\* field and a block of that many bytes
LegacyPrefix(w, k) ==
    /\ Len(w) >= 1 + 2 * k
    /\ w[1] = Magic
    /\ \A i \in 1..k : /\ w[2 * i].t = "u32"
                       /\ w[2 * i + 1].t = "blk"
                       /\ w[2 * i].v = SegLen(w[2 * i + 1])

\* C10: the writes of lz4_legacy encode are the magic, then per block a
\* length field holding the number of compressed bytes written right after
\* it, then once, last, a field holding the input length.
C10_WriteOrder ==
    (invoked /\ fn = "lz4_legacy" /\ mode = 1)
       => /\ pc = "init" => wlog = <<>>
          /\ (pc # "init" /\ outcome = "none")
                => /\ Len(wlog) % 2 = 1
                   /\ LegacyPrefix(wlog, (Len(wlog) - 1) \div 2)
          /\ outcome = "returned"
                => /\ Len(wlog) % 2 = 0 /\ Len(wlog) >= 4
                   /\ LegacyPrefix(wlog, (Len(wlog) - 2) \div 2)
                   /\ wlog[Len(wlog)] = U32(size)

C10_Witness ==
    /\ fn = "lz4_legacy" /\ mode = 1 /\ outcome = "returned"
    /\ Len(wlog) = 6 /\ wlog[6] = U32(size)

InLoop == pc \in {"init", "outer", "inner"}

\* the condition under which each inner loop runs again
InnerAgain ==
    CASE fn \in {"gzip", "bzip2"} -> loc.avail_out = 0
      [] fn = "lzma" -> loc.avail_out = 0 /\ ret = "LZMA_OK"
      [] fn = "lz4" -> loc.avail_in # 0 /\ ret # "0"
      [] OTHER -> FALSE

\* the call encodes, or decodes what the encoder of its format wrote, and no
\* codec step has reported a fault
GoodRun == (mode # 0 \/ buf.prov = cmd.type) /\ ~faulted

\* C11: every transcoder call terminates, and on a run over well-formed
\* input, when the loops have been left, the cursor has reached the input
\* length and the codec has no buffered output pending.
C11_LoopsTerminate ==
    /\ [](pc = "end" /\ GoodRun => (pos >= size /\ ~InnerAgain))
    /\ (InLoop ~> ~InLoop)

C11_Witness ==
    /\ pc = "end" /\ fn = "gzip" /\ size > 2 * CHUNK /\ pos = size

\* C12: decomp_file goes on to open its destination if and only if the
\* suffix of the path is the one expected for the detected type; every other
\* (type, path) pair ends the command in failure.
C12_ExtensionMatcher ==
    cmd.op = "decomp_file"
       => /\ opened <=> cmd.ext = SpecSuffix(cmd.type)
          /\ ~opened => (pc = "idle" /\ outcome = "exited")

C12_Witness ==
    /\ cmd.op = "decomp_file" /\ cmd.type = "XZ" /\ cmd.ext = "gz"
    /\ ~opened /\ outcome = "exited"

\* the (tag, suffix) pair the specification gives each method name
SpecPair(method) ==
    CASE method = "gzip" -> <<"GZIP", "gz">>
      [] method = "xz" -> <<"XZ", "xz">>
      [] method = "lzma" -> <<"LZMA", "lzma">>
      [] method = "lz4" -> <<"LZ4", "lz4">>
      [] method = "lz4_legacy" -> <<"LZ4_LEGACY", "lz4">>
      [] method = "bzip2" -> <<"BZIP2", "bz2">>
      [] OTHER -> <<"", "">>

\* C13: comp_file maps each of the six method names to its (tag, suffix)
\* pair and, with no destination given, writes to the source path plus that
\* suffix; any other method name ends the command in failure.
C13_MethodMatcher ==
    cmd.op = "comp_file"
       => IF cmd.method \in SpecMethods
          THEN /\ <<cmd.type, cmd.ext>> = SpecPair(cmd.method)
               /\ opened
               /\ cmd.to = NULL => fd = Append(cmd.from, cmd.ext)
          ELSE pc = "idle" /\ outcome = "exited" /\ ~opened /\ ~invoked

C13_Witness ==
    /\ cmd.op = "comp_file" /\ cmd.method = "lz4_legacy"
    /\ cmd.type = "LZ4_LEGACY" /\ fd = <<"a", "lz4">>
    /\ fn = "lz4_legacy" /\ outcome = "returned"

\* the transcoder the specification gives each tag
SpecTranscoder(type) ==
    CASE type = "GZIP" -> "gzip" [] type \in {"XZ", "LZMA"} -> "lzma"
      [] type = "BZIP2" -> "bzip2" [] type = "LZ4" -> "lz4"
      [] type = "LZ4_LEGACY" -> "lz4_legacy" [] OTHER -> ""

IsEnc(s) == s.t = "enc"

\* C14: a supported tag is routed to its own transcoder, in decode mode from
\* decomp and in an encode mode from comp; XZ and LZMA share the decode mode
\* of lzma, XZ encodes in the xz stream mode (1) and LZMA in the legacy-alone
\* mode (2), and each encode mode writes the stream format of its tag.
C14_Routing ==
    (invoked /\ cmd.type \in Supported)
       => /\ fn = SpecTranscoder(cmd.type)
          /\ IsDecomp => mode = 0
          /\ IsComp => mode = (IF cmd.type = "LZMA" THEN 2 ELSE 1)
          /\ (IsComp /\ fn = "lzma")
                => \A i \in DOMAIN wlog :
                      IsEnc(wlog[i]) => wlog[i].f = cmd.type

C14_Witness ==
    /\ cmd.op = "comp" /\ cmd.type = "LZMA" /\ fn = "lzma" /\ mode = 2
    /\ outcome = "returned" /\ Len(SelectSeq(wlog, IsEnc)) > 0

FinishActions == {"Z_FINISH", "LZMA_FINISH", "BZ_FINISH"}

RunActions == {"Z_NO_FLUSH", "LZMA_RUN", "BZ_RUN"}

\* a window has been set up in this call of gzip, lzma or bzip2
WindowSet ==
    /\ invoked /\ fn \in {"gzip", "lzma", "bzip2"}
    /\ pc \in {"inner", "end"} \/ outcome = "returned"

\* C15: in gzip, lzma and bzip2 the current window carries the finish action
\* exactly when it ends at the input length, which makes it the last one;
\* any other window is a full one carrying the run action; and the loops are
\* left, and the call returns, only after a finish window.
C15_FinishOnLastWindow ==
    WindowSet
       => /\ loc.flush \in FinishActions \cup RunActions
          /\ loc.flush \in FinishActions <=> pos = size
          /\ loc.flush \in RunActions
                => /\ pos < size
                   /\ handed = <<[lo |-> pos - Window(cmd.type),
                                  n |-> Window(cmd.type)]>>
          /\ (pc = "end" \/ outcome = "returned")
                => loc.flush \in FinishActions

C15_Witness ==
    /\ WindowSet /\ fn = "gzip" /\ mode = 1 /\ size = 2 * CHUNK
    /\ pc = "end" /\ loc.flush = "Z_FINISH"
    /\ handed = <<[lo |-> CHUNK, n |-> CHUNK]>>

\* C16: in gzip, lzma, bzip2 and lz4 every window starts where the bytes the
\* codec has consumed end, the codec is given no gap and no byte twice, and
\* a call that returns without a reported fault has had the codec consume
\* the whole input.
C16_LeftToRight ==
    (invoked /\ fn \in {"gzip", "lzma", "bzip2", "lz4"})
       => /\ pc = "outer" => pos = strm.cin
          /\ strm.seq
          /\ (outcome = "returned" /\ ~faulted) => strm.cin = size

\* C17: lz4 encode of any input, short ones included, does not fail; it
\* writes the frame header first, then the body in input order, then the end
\* mark last, each of them counted in the total it returns, and it frees the
\* context only when the end mark has been written.
C17_FrameOrder ==
    (invoked /\ fn = "lz4" /\ mode = 1)
       => /\ outcome \in {"none", "returned"}
          /\ pc \in {"outer", "inner", "end"}
                => /\ Len(wlog) >= 1
                   /\ wlog[1] = Enc("LZ4", size, 0, HeaderLen("LZ4"))
          /\ \A i \in 2..Len(wlog) :
                IsEnc(wlog[i]) /\ wlog[i].a = wlog[i - 1].b
          /\ outcome = "returned"
                => /\ Len(wlog) >= 2
                   /\ SegLen(wlog[Len(wlog)]) = TrailerLen("LZ4")
                   /\ wlog[Len(wlog)].b = EncLen("LZ4", size, plain.r)
                   /\ retval = Written
          /\ ctx = "freed" => outcome = "returned"

Stripped(path) == SubSeq(path, 1, Len(path) - 1)

\* C18: decomp_file with no destination writes to the source path less its
\* suffix, holds the shortened string only while it runs, and after the
\* decode deletes the file of the full name, leaving the output; with a
\* destination it writes there and leaves the path string and the source
\* file as they were.
C18_ImplicitDestination ==
    (cmd.op = "decomp_file" /\ opened)
       => IF cmd.to = NULL
          THEN /\ fd = Stripped(cmd.from)
               /\ fd \in DOMAIN fs
               /\ pc # "idle"
                     => /\ cmd.fromstr = Stripped(cmd.from)
                        /\ cmd.from \in DOMAIN fs /\ fs[cmd.from] = buf
               /\ (pc = "idle" /\ outcome = "returned")
                     => /\ cmd.fromstr = cmd.from
                        /\ cmd.from \notin DOMAIN fs
          ELSE /\ fd = cmd.to
               /\ cmd.fromstr = cmd.from
               /\ cmd.from \in DOMAIN fs /\ fs[cmd.from] = buf

C18_Witness ==
    /\ cmd.op = "decomp_file" /\ cmd.to = NULL
    /\ pc = "idle" /\ outcome = "returned"
    /\ cmd.from = <<"a", "gz">> /\ cmd.from \notin DOMAIN fs
    /\ plain.n > 0 /\ fs[<<"a">>].segs = PlainSegs(plain.n)

Released(r) == r \in {"none", "freed"}

\* C19: when a transcoder call is over, however it ended, the codec context
\* and the scratch buffer it acquired have been released; a call that
\* returns has released each of them; and nothing runs on a released one.
C19_ReleaseOnEveryPath ==
    invoked
       => /\ outcome # "none" => (Released(ctx) /\ Released(scratch))
          /\ outcome = "returned"
                => /\ fn \in {"gzip", "lzma", "bzip2", "lz4"} => ctx = "freed"
                   /\ fn \in {"lz4", "lz4_legacy"} => scratch = "freed"
          /\ (ctx = "freed" \/ scratch = "freed")
                => pc \notin {"init", "outer", "inner", "end"}

====
